---- MODULE Spec2Model ----
(***************************************************************************)
(* Model of cateye (src/cateye/cateye.py): the two classification adapters *)
(* classify_nslr_hmm and classify_remodnav, the three taxonomy tables they *)
(* read, and the discrete/continuous converters exported by the package.   *)
(*                                                                         *)
(* Time values are integers counted in ticks of 1e-5 s, so the tolerance   *)
(* 1e-5 of cateye.py:154 is one tick and one second is TicksPerSecond.     *)
(* Rational numbers (the sampling rate) are kept as [num, den] pairs;      *)
(* den = 0 with num = 0 is numpy's nan, den = 0 with num # 0 is inf.       *)
(***************************************************************************)
EXTENDS Integers, Sequences, FiniteSets, TLC

VARIABLES pc, CLASSES, REMODNAV_CLASSES, REMODNAV_SIMPLE,
          classifier_kwargs, preproc_kwargs, process_kwargs,
          call, times, backend, warned, result, conv

vars == <<pc, CLASSES, REMODNAV_CLASSES, REMODNAV_SIMPLE,
          classifier_kwargs, preproc_kwargs, process_kwargs,
          call, times, backend, warned, result, conv>>

tables == <<CLASSES, REMODNAV_CLASSES, REMODNAV_SIMPLE>>
defaults == <<classifier_kwargs, preproc_kwargs, process_kwargs>>

----------------------------------------------------------------------------
(* Bounds of the model *)

MaxLen == 3
MaxEvents == 2

TimeStarts == {0, 10}
TimeSteps == {0 - 1, 1, 3, 4}
Rates == {1, 2}
LocalStarts == {0, 1}

----------------------------------------------------------------------------
(* Units and program constants *)

TicksPerSecond == 100000
Tolerance == 1

nslr_hmm_FIXATION == 1
nslr_hmm_SACCADE == 2
nslr_hmm_PSO == 3
nslr_hmm_SMOOTH_PURSUIT == 4
PyNone == 0 - 1
UnknownId == 9
UnknownCode == "XXXX"
NoneObject == "<None>"

----------------------------------------------------------------------------
(* The taxonomy tables as the module body builds them *)

CLASSES_Literal ==
    [k \in {nslr_hmm_FIXATION, nslr_hmm_SACCADE, nslr_hmm_SMOOTH_PURSUIT,
            nslr_hmm_PSO, PyNone} |->
        CASE k = nslr_hmm_FIXATION -> "Fixation"
          [] k = nslr_hmm_SACCADE -> "Saccade"
          [] k = nslr_hmm_SMOOTH_PURSUIT -> "Smooth Pursuit"
          [] k = nslr_hmm_PSO -> "PSO"
          [] OTHER -> "None"]

REMODNAV_CLASSES_Literal ==
    [k \in {"FIXA", "SACC", "ISAC", "PURS", "HPSO", "LPSO", "IHPS", "ILPS"} |->
        CASE k = "FIXA" -> "Fixation"
          [] k = "SACC" -> "Saccade"
          [] k = "ISAC" -> "ISaccade"
          [] k = "PURS" -> "Smooth Pursuit"
          [] k = "HPSO" -> "High-Velocity PSO"
          [] k = "LPSO" -> "Low-Velocity PSO"
          [] k = "IHPS" -> "High-Velocity PSO (NCB)"
          [] OTHER -> "Low-Velocity PSO (NCB)"]

REMODNAV_SIMPLE_Broken ==
    [k \in {"FIXA", "SACC", "ISAC", "PURS", "HPSO", "LPSO", "IHPS", "ILPS"} |->
        CASE k = "FIXA" -> "Fixation"
          [] k = "SACC" -> "Saccade"
          [] k = "ISAC" -> "ISaccade"
          [] k = "PURS" -> "Smooth Pursuit"
          [] OTHER -> "PSO"]

REMODNAV_SIMPLE_Literal ==
    [k \in {"FIXA", "SACC", "ISAC", "PURS", "HPSO", "LPSO", "IHPS", "ILPS"} |->
        CASE k = "FIXA" -> "Fixation"
          [] k = "SACC" -> "Saccade"
          [] k = "ISAC" -> "Saccade"
          [] k = "PURS" -> "Smooth Pursuit"
          [] OTHER -> "PSO"]

----------------------------------------------------------------------------
(* numpy helpers *)

RECURSIVE SumSeq(_)
SumSeq(s) == IF Len(s) = 0 THEN 0 ELSE Head(s) + SumSeq(Tail(s))

CeilDiv(a, b) == (a + b - 1) \div b

\* np.arange(start, stop, step): start, start+step, ... while below stop
Arange(start, stop, step) ==
    [k \in 1..CeilDiv(stop - start, step) |-> start + (k - 1) * step]

\* times[1:] - times[:-1]
Diff(t) == [i \in 1..(Len(t) - 1) |-> t[i + 1] - t[i]]

\* np.array(time) if hasattr(time, '__iter__') else np.arange(0, len(x), 1/time)
TimeArray(time_kind, time_vec, rate, x_len) ==
    IF time_kind = "vector" THEN time_vec
    ELSE Arange(0, x_len * TicksPerSecond, TicksPerSecond \div rate)

\* np.std(d) > 1e-5 at the tolerance itself as well
IrregularAtTolerance(t) ==
    LET d == Diff(t)
        n == Len(d)
        dev == [i \in 1..n |-> (n * d[i] - SumSeq(d)) * (n * d[i] - SumSeq(d))]
    IN  n > 0 /\ SumSeq(dev) >= n * n * n * Tolerance * Tolerance

\* np.std(d) > 1e-5: the mean of the squared deviations from the mean is
\* above the squared tolerance, with the deviations scaled by n to stay in
\* the integers; the std of an empty array is nan and nan > 1e-5 is False
Irregular(t) ==
    LET d == Diff(t)
        n == Len(d)
        dev == [i \in 1..n |-> (n * d[i] - SumSeq(d)) * (n * d[i] - SumSeq(d))]
    IN  n > 0 /\ SumSeq(dev) > n * n * n * Tolerance * Tolerance

\* 1 / np.mean(d) in Hz: mean = sum/n ticks = sum/(n*TicksPerSecond) seconds
SamplingRate(t) ==
    LET d == Diff(t)
    IN  [num |-> Len(d) * TicksPerSecond, den |-> SumSeq(d)]

----------------------------------------------------------------------------
(* Segment representation converters (cateye.utils) *)

StrictlyIncreasing(s) == \A i \in 1..(Len(s) - 1) : s[i] < s[i + 1]

\* position of sample j: its index (0-based) or its time
Position(time_vector, j, mode) == IF mode = "index" THEN j - 1 ELSE time_vector[j]

\* the last breakpoint at or before position p, 0 when there is none
LastBreakpoint(breakpoints, p) ==
    LET at == {k \in 1..Len(breakpoints) : breakpoints[k] <= p}
    IN  IF at = {} THEN 0 ELSE CHOOSE k \in at : \A m \in at : m <= k

discrete_to_continuous(time_vector, breakpoints, labels, mode, fill) ==
    IF Len(breakpoints) # Len(labels) \/ ~StrictlyIncreasing(breakpoints)
    THEN [raised |-> TRUE, segments |-> <<>>, classes |-> <<>>]
    ELSE [raised |-> FALSE,
          segments |-> time_vector,
          classes |-> [j \in 1..Len(time_vector) |->
                        LET k == LastBreakpoint(breakpoints, Position(time_vector, j, mode))
                        IN  IF k = 0 THEN fill ELSE labels[k]]]

RECURSIVE ChangePoints(_, _)
\* the sample numbers 1..n at which the label differs from the previous one
ChangePoints(L, n) ==
    IF n = 0 THEN <<>>
    ELSE IF n = 1 \/ L[n] # L[n - 1] THEN Append(ChangePoints(L, n - 1), n)
    ELSE ChangePoints(L, n - 1)

\* a breakpoint at every sample, whether or not the label changes
continuous_to_discrete_EverySample(time_vector, continuous_labels, mode) ==
    [breakpoints |-> [k \in 1..Len(continuous_labels) |-> Position(time_vector, k, mode)],
     labels |-> continuous_labels]

continuous_to_discrete(time_vector, continuous_labels, mode) ==
    LET cp == ChangePoints(continuous_labels, Len(continuous_labels))
    IN  [breakpoints |-> [k \in 1..Len(cp) |-> Position(time_vector, cp[k], mode)],
         labels |-> [k \in 1..Len(cp) |-> continuous_labels[cp[k]]]]

----------------------------------------------------------------------------
(* Values shared by the adapters *)

NoOrig == [events |-> <<>>, sample_class |-> <<>>, segmentation |-> <<>>,
           seg_class |-> <<>>]

NoResult == [status |-> "none", error |-> "", raised_at |-> "",
             segments |-> <<>>, classes |-> <<>>, has_orig |-> FALSE,
             orig |-> NoOrig]

Raise(error, where) ==
    [NoResult EXCEPT !.status = "raised", !.error = error, !.raised_at = where]

Return(segments, classes, has_orig, orig) ==
    [status |-> "returned", error |-> "", raised_at |-> "",
     segments |-> segments, classes |-> classes, has_orig |-> has_orig,
     orig |-> IF has_orig THEN orig ELSE NoOrig]

NoReply == [raises |-> FALSE, events |-> <<>>, segments |-> <<>>, seg_class |-> <<>>,
            sample_class |-> <<>>]

NoBackend == [invoked |-> FALSE, sampling_rate |-> [num |-> 0, den |-> 0],
              time_array |-> <<>>, kwargs |-> <<{}, {}, {}>>, reply |-> NoReply]

NoCall == [fn |-> "", x_len |-> 0, y_len |-> 0, time_kind |-> "", time_vec |-> <<>>,
           rate |-> 0, return_discrete |-> FALSE, return_orig_output |-> FALSE,
           simple_output |-> FALSE, custom_kwargs |-> FALSE]

NoConv == [stage |-> "", mode |-> "", time_vector |-> <<>>, labels |-> <<>>,
           breakpoints |-> <<>>, discrete_labels |-> <<>>, raised |-> FALSE,
           continuous |-> <<>>]

CustomKwargs == {<<"option", 1>>}

\* dict.get(key, "None") instead of dict[key]
LookupAllWithDefault(table, keys) ==
    [raised |-> FALSE,
     values |-> [i \in 1..Len(keys) |->
                    IF keys[i] \in DOMAIN table THEN table[keys[i]] ELSE "None"],
     table |-> table]

\* [table[k] for k in keys]: a subscript raises KeyError on an absent key
\* and leaves the table as it was
LookupAll(table, keys) ==
    [raised |-> \E i \in 1..Len(keys) : keys[i] \notin DOMAIN table,
     values |-> [i \in 1..Len(keys) |->
                    IF keys[i] \in DOMAIN table THEN table[keys[i]] ELSE ""],
     table |-> table]

\* the callee stores an entry in the dictionary it was given
KwargsUnpackInPlace(d) ==
    [passed |-> d \cup {<<"sampling_rate", 0>>}, dict |-> d \cup {<<"sampling_rate", 0>>}]

\* f(**d): the callee gets a fresh dictionary, d keeps its entries
KwargsUnpack(d) == [passed |-> d, dict |-> d]

----------------------------------------------------------------------------
(* classify_remodnav *)

\* the events are returned as the backend made them
ShiftEventsNot(events, t0) == events

\* for i in range(len(events)): events[i]['start_time'] += times[0]; ... 'end_time'
ShiftEvents(events, t0) ==
    [i \in 1..Len(events) |->
        [events[i] EXCEPT !.start_time = @ + t0, !.end_time = @ + t0]]

\* two empty sequences come out of an empty list of pairs
ZipUnpackNever(pairs) == FALSE

\* segments, classes = zip(*pairs): zip of no arguments yields nothing, and
\* unpacking two names from nothing raises ValueError
ZipUnpackRaises(pairs) == Len(pairs) = 0

\* the whole call, as a function of its arguments a, the backend's reply,
\* the two tables and the three default option dictionaries
RemodnavOutcome(a, reply, full_table, simple_table, ck, pk, prk) ==
    LET t == TimeArray(a.time_kind, a.time_vec, a.rate, a.x_len)
        warn == Irregular(t)
        sampling_rate == SamplingRate(t)
        uck == KwargsUnpack(IF a.custom_kwargs THEN CustomKwargs ELSE ck)
        upk == KwargsUnpack(IF a.custom_kwargs THEN CustomKwargs ELSE pk)
        uprk == KwargsUnpack(IF a.custom_kwargs THEN CustomKwargs ELSE prk)
        seen == [invoked |-> TRUE, sampling_rate |-> sampling_rate, time_array |-> <<>>,
                 kwargs |-> <<uck.passed, upk.passed, uprk.passed>>, reply |-> reply]
        events == ShiftEvents(reply.events, t[1])
        class_dict == IF a.simple_output THEN simple_table ELSE full_table
        looked == LookupAll(class_dict, [i \in 1..Len(events) |-> events[i].label])
        segments == [i \in 1..Len(events) |-> events[i].start_time]
        cont == discrete_to_continuous(t, segments, looked.values, "time", NoneObject)
        orig == [NoOrig EXCEPT !.events = events]
        base == [times |-> t, warned |-> warn, backend |-> NoBackend, result |-> NoResult,
                 full_table |-> full_table, simple_table |-> simple_table,
                 ck |-> ck, pk |-> pk, prk |-> prk]
        after == [base EXCEPT !.backend = seen,
                      !.ck = IF a.custom_kwargs THEN ck ELSE uck.dict,
                      !.pk = IF a.custom_kwargs THEN pk ELSE upk.dict,
                      !.prk = IF a.custom_kwargs THEN prk ELSE uprk.dict]
        mapped == [after EXCEPT
                      !.full_table = IF a.simple_output THEN full_table ELSE looked.table,
                      !.simple_table = IF a.simple_output THEN looked.table ELSE simple_table]
    IN  IF a.x_len # a.y_len
        THEN [base EXCEPT !.result = Raise("ValueError", "fromarrays")]
        ELSE IF reply.raises
        THEN [after EXCEPT !.result = Raise("BackendError", "backend")]
        ELSE IF looked.raised
        THEN [mapped EXCEPT !.result = Raise("KeyError", "lookup")]
        ELSE IF ZipUnpackRaises(events)
        THEN [mapped EXCEPT !.result = Raise("ValueError", "unpack")]
        ELSE IF a.return_discrete
        THEN [mapped EXCEPT !.result =
                 Return(segments, looked.values, a.return_orig_output, orig)]
        ELSE IF cont.raised
        THEN [mapped EXCEPT !.result =
                 Raise("MalformedSegmentationError", "discrete_to_continuous")]
        ELSE [mapped EXCEPT !.result =
                 Return(cont.segments, cont.classes, a.return_orig_output, orig)]

\* labels a reply of n events draws from
ReplyLabels(n) ==
    IF n = 1 THEN DOMAIN REMODNAV_CLASSES_Literal \cup {UnknownCode}
    ELSE {"FIXA", "ISAC", "ILPS", UnknownCode}

\* consecutive events of one tick each, in the backend's local time
EventsOf(s0, labels) ==
    [k \in 1..Len(labels) |->
        [start_time |-> s0 + (k - 1), end_time |-> s0 + k, label |-> labels[k]]]

RemodnavReplies ==
    {[NoReply EXCEPT !.raises = TRUE], NoReply}
    \cup UNION {{[NoReply EXCEPT !.events = EventsOf(s0, labels)] :
                    s0 \in LocalStarts, labels \in [1..n -> ReplyLabels(n)]} :
                n \in 1..MaxEvents}

----------------------------------------------------------------------------
(* classify_nslr_hmm *)

\* [s.i[0] for s in seg.segments]
SegmentStartIndices(segmentation) ==
    [k \in 1..Len(segmentation) |-> segmentation[k].i[1]]

\* [s.t[0] for s in seg.segments]
SegmentStarts(segmentation) ==
    [k \in 1..Len(segmentation) |-> segmentation[k].t[1]]

\* the whole call, as a function of its arguments a, the backend's reply and
\* the table
NslrOutcome(a, reply, table) ==
    LET t == TimeArray(a.time_kind, a.time_vec, a.rate, a.x_len)
        kw == IF a.custom_kwargs THEN CustomKwargs ELSE {}
        seen == [NoBackend EXCEPT !.invoked = TRUE, !.time_array = t,
                                  !.kwargs = <<kw, {}, {}>>, !.reply = reply]
        segments == SegmentStarts(reply.segments)
        cont == discrete_to_continuous(t, segments, reply.seg_class, "time", PyNone)
        looked == LookupAll(table, IF a.return_discrete THEN reply.seg_class
                                   ELSE cont.classes)
        orig == [NoOrig EXCEPT !.sample_class = reply.sample_class,
                               !.segmentation = reply.segments,
                               !.seg_class = reply.seg_class]
        base == [times |-> <<>>, warned |-> FALSE, backend |-> NoBackend,
                 result |-> NoResult, table |-> table]
        after == [base EXCEPT !.times = t, !.backend = seen]
        mapped == [after EXCEPT !.table = looked.table]
    IN  IF a.x_len # a.y_len
        THEN [base EXCEPT !.result = Raise("ValueError", "vstack")]
        ELSE IF reply.raises
        THEN [after EXCEPT !.result = Raise("BackendError", "backend")]
        ELSE IF ~a.return_discrete /\ cont.raised
        THEN [after EXCEPT !.result =
                 Raise("MalformedSegmentationError", "discrete_to_continuous")]
        ELSE IF looked.raised
        THEN [mapped EXCEPT !.result = Raise("KeyError", "lookup")]
        ELSE [mapped EXCEPT !.result =
                 Return(IF a.return_discrete THEN segments ELSE cont.segments,
                        looked.values, a.return_orig_output, orig)]

\* class ids a reply of n segments draws from
ReplyIds(n) ==
    IF n = 1 THEN DOMAIN CLASSES_Literal \cup {UnknownId}
    ELSE {nslr_hmm_FIXATION, nslr_hmm_SACCADE, UnknownId}

\* the k-th smallest element of a set of integers
RECURSIVE Sorted(_)
Sorted(S) ==
    IF S = {} THEN <<>>
    ELSE LET m == CHOOSE x \in S : \A y \in S : x <= y
         IN  <<m>> \o Sorted(S \ {m})

\* a segmentation of the samples 0..Len(t)-1 starting at the given indices:
\* each segment carries its index pair i and its time pair t
SegmentationOf(t, starts) ==
    [k \in 1..Len(starts) |->
        LET last == IF k = Len(starts) THEN Len(t) - 1 ELSE starts[k + 1]
        IN  [i |-> <<starts[k], last>>, t |-> <<t[starts[k] + 1], t[last + 1]>>]]

\* the per-sample class ids of a segmentation
SampleClass(t, starts, ids) ==
    [j \in 1..Len(t) |-> ids[LastBreakpoint(starts, j - 1)]]

NslrReplies(t) ==
    {[NoReply EXCEPT !.raises = TRUE]}
    \cup UNION {{[raises |-> FALSE, events |-> <<>>,
                  segments |-> SegmentationOf(t, Sorted(S)),
                  seg_class |-> ids,
                  sample_class |-> SampleClass(t, Sorted(S), ids)] :
                    ids \in [1..Cardinality(S) -> ReplyIds(Cardinality(S))]} :
                S \in {X \in SUBSET (0..(Len(t) - 1)) :
                          0 \in X /\ Cardinality(X) <= MaxEvents}}

----------------------------------------------------------------------------
(* Inputs *)

RECURSIVE Cumulate(_, _)
\* the vector that starts at t0 and advances by the given steps
Cumulate(t0, steps) ==
    IF Len(steps) = 0 THEN <<t0>>
    ELSE <<t0>> \o Cumulate(t0 + Head(steps), Tail(steps))

TimeVectors ==
    UNION {{Cumulate(t0, steps) : t0 \in TimeStarts, steps \in [1..k -> TimeSteps]} :
              k \in 0..(MaxLen - 1)}

OtherLen(n) == (n % MaxLen) + 1

Flags(fn) ==
    [return_discrete : BOOLEAN, return_orig_output : BOOLEAN,
     simple_output : IF fn = "classify_remodnav" THEN BOOLEAN ELSE {FALSE},
     custom_kwargs : BOOLEAN]

CallOf(fn, xl, yl, kind, tv, r, f) ==
    [fn |-> fn, x_len |-> xl, y_len |-> yl, time_kind |-> kind, time_vec |-> tv,
     rate |-> r, return_discrete |-> f.return_discrete,
     return_orig_output |-> f.return_orig_output,
     simple_output |-> f.simple_output, custom_kwargs |-> f.custom_kwargs]

\* a call's arguments: an explicit time vector with x of that length or of
\* another one, or a scalar rate; y as long as x or not
Calls(fn) ==
    UNION {{CallOf(fn, xl, yl, "vector", tv, 0, f) :
               xl \in {Len(tv), OtherLen(Len(tv))}, f \in Flags(fn)} :
           tv \in TimeVectors, yl \in 1..MaxLen}
    \cup
    {CallOf(fn, xl, yl, "scalar", <<>>, r, f) :
        xl \in 1..MaxLen, yl \in 1..MaxLen, r \in Rates, f \in Flags(fn)}

ConvLabels == {"Fixation", "Saccade", "PSO"}

----------------------------------------------------------------------------
(* State machine: one synchronous call at a time *)

Init ==
    /\ pc = "idle"
    /\ CLASSES = CLASSES_Literal
    /\ REMODNAV_CLASSES = REMODNAV_CLASSES_Literal
    /\ REMODNAV_SIMPLE = REMODNAV_SIMPLE_Literal
    /\ classifier_kwargs = {}
    /\ preproc_kwargs = {}
    /\ process_kwargs = {}
    /\ call = NoCall
    /\ times = <<>>
    /\ backend = NoBackend
    /\ warned = FALSE
    /\ result = NoResult
    /\ conv = NoConv

classify_nslr_hmm(a, reply) ==
    /\ pc = "idle"
    /\ \E o \in {NslrOutcome(a, reply, CLASSES)} :
           /\ call' = a
           /\ times' = o.times
           /\ warned' = o.warned
           /\ backend' = o.backend
           /\ result' = o.result
           /\ CLASSES' = o.table
    /\ pc' = "done"
    /\ UNCHANGED <<REMODNAV_CLASSES, REMODNAV_SIMPLE, defaults, conv>>

classify_remodnav(a, reply) ==
    /\ pc = "idle"
    /\ \E o \in {RemodnavOutcome(a, reply, REMODNAV_CLASSES, REMODNAV_SIMPLE,
                                    classifier_kwargs, preproc_kwargs, process_kwargs)} :
           /\ call' = a
           /\ times' = o.times
           /\ warned' = o.warned
           /\ backend' = o.backend
           /\ result' = o.result
           /\ REMODNAV_CLASSES' = o.full_table
           /\ REMODNAV_SIMPLE' = o.simple_table
           /\ classifier_kwargs' = o.ck
           /\ preproc_kwargs' = o.pk
           /\ process_kwargs' = o.prk
    /\ pc' = "done"
    /\ UNCHANGED <<CLASSES, conv>>

CallContinuousToDiscrete(time_vector, labels, mode) ==
    /\ pc = "idle"
    /\ LET d == continuous_to_discrete(time_vector, labels, mode)
       IN  conv' = [NoConv EXCEPT !.stage = "discrete", !.mode = mode,
                                  !.time_vector = time_vector, !.labels = labels,
                                  !.breakpoints = d.breakpoints,
                                  !.discrete_labels = d.labels]
    /\ pc' = "converting"
    /\ UNCHANGED <<tables, defaults, call, times, backend, warned, result>>

CallDiscreteToContinuous ==
    /\ pc = "converting"
    /\ conv.stage = "discrete"
    /\ LET c == discrete_to_continuous(conv.time_vector, conv.breakpoints,
                                       conv.discrete_labels, conv.mode, NoneObject)
       IN  conv' = [conv EXCEPT !.stage = "continuous", !.raised = c.raised,
                                !.continuous = c.classes]
    /\ pc' = "done"
    /\ UNCHANGED <<tables, defaults, call, times, backend, warned, result>>

\* the caller takes the result; nothing of a call is retained
Discard ==
    /\ pc = "done"
    /\ pc' = "idle"
    /\ call' = NoCall
    /\ times' = <<>>
    /\ backend' = NoBackend
    /\ warned' = FALSE
    /\ result' = NoResult
    /\ conv' = NoConv
    /\ UNCHANGED <<tables, defaults>>

CallNslr ==
    /\ pc = "idle"
    /\ \E a \in {c \in Calls("classify_nslr_hmm") : c.y_len \in {c.x_len, OtherLen(c.x_len)}} :
        \E reply \in NslrReplies(TimeArray(a.time_kind, a.time_vec, a.rate, a.x_len)) :
            classify_nslr_hmm(a, reply)

CallRemodnav ==
    /\ pc = "idle"
    /\ \E a \in {c \in Calls("classify_remodnav") : c.y_len \in {c.x_len, OtherLen(c.x_len)}} :
        \E reply \in RemodnavReplies : classify_remodnav(a, reply)

CallConverter ==
    /\ pc = "idle"
    /\ \E tv \in {v \in TimeVectors : StrictlyIncreasing(v)} :
        \E labels \in [1..Len(tv) -> ConvLabels] :
            \E mode \in {"index", "time"} : CallContinuousToDiscrete(tv, labels, mode)

Next ==
    \/ CallNslr
    \/ CallRemodnav
    \/ CallConverter
    \/ CallDiscreteToContinuous
    \/ Discard

Spec == Init /\ [][Next]_vars

----------------------------------------------------------------------------
(* Properties *)

Done(fn) == pc = "done" /\ call.fn = fn

Replied == backend.invoked /\ ~backend.reply.raises

\* C1: in classify_remodnav with an explicit time vector and a non-empty
\* backend event sequence, every returned event's start and end time is the
\* backend's local value plus time[0], added once, and in discrete mode the
\* i-th breakpoint is the i-th event's local start time plus time[0]
ThmC1_TimeRealignment ==
    (Done("classify_remodnav") /\ call.time_kind = "vector"
        /\ result.status = "returned")
    => LET local == backend.reply.events
           t0 == call.time_vec[1]
       IN  /\ Len(local) > 0
           /\ call.return_orig_output =>
                /\ Len(result.orig.events) = Len(local)
                /\ \A i \in 1..Len(local) :
                     /\ result.orig.events[i].start_time = local[i].start_time + t0
                     /\ result.orig.events[i].end_time = local[i].end_time + t0
                     /\ result.orig.events[i].label = local[i].label
           /\ call.return_discrete =>
                /\ Len(result.segments) = Len(local)
                /\ \A i \in 1..Len(local) :
                     result.segments[i] = local[i].start_time + t0

WitC1_TimeRealignment ==
    /\ Done("classify_remodnav") /\ call.time_kind = "vector"
    /\ result.status = "returned"
    /\ call.return_discrete /\ call.return_orig_output
    /\ call.time_vec[1] = 10
    /\ Len(backend.reply.events) = 2
    /\ backend.reply.events[1].start_time = 0
    /\ result.segments[1] = 10
    /\ result.orig.events[2].end_time = 12

\* C2: with a scalar sampling rate r and x of length N the synthesized time
\* vector has exactly N entries 0, 1/r, ..., (N-1)/r
CexC2_ScalarExpansion ==
    (pc = "done" /\ call.time_kind = "scalar"
        /\ (call.fn = "classify_remodnav" \/ backend.invoked))
    => times = [k \in 1..call.x_len |-> (k - 1) * (TicksPerSecond \div call.rate)]

\* the standard deviation of the consecutive differences of t is above the
\* tolerance: mean of squares minus square of mean, cleared of denominators
StdAboveTolerance(t) ==
    LET n == Len(t) - 1
        sumsq == SumSeq([i \in 1..n |-> (t[i + 1] - t[i]) * (t[i + 1] - t[i])])
        sum == t[Len(t)] - t[1]
    IN  n * sumsq - sum * sum > n * n * Tolerance * Tolerance

\* the rate r is 1 / mean(diff(t)): r * (t[last] - t[first]) = number of steps
IsInverseMeanStep(r, t) ==
    /\ r.num * (t[Len(t)] - t[1]) = r.den * (Len(t) - 1) * TicksPerSecond
    /\ r.num # 0
    /\ r.den = 0 <=> t[Len(t)] = t[1]

\* C3: in classify_remodnav with an explicit time vector (of two samples or
\* more), spacing with a standard deviation above 1e-5 does not stop the
\* call: the warning is emitted and, unless x and y differ in length, the
\* backend classifier is built with sampling rate 1 / mean(diff(time));
\* spacing at or below the tolerance emits no warning
ThmC3_IrregularSampling ==
    (Done("classify_remodnav") /\ call.time_kind = "vector" /\ Len(call.time_vec) >= 2)
    => /\ warned <=> StdAboveTolerance(call.time_vec)
       /\ call.x_len = call.y_len =>
            /\ backend.invoked
            /\ IsInverseMeanStep(backend.sampling_rate, call.time_vec)
       /\ result.status = "raised" =>
            result.raised_at \in {"fromarrays", "backend", "lookup", "unpack",
                                  "discrete_to_continuous"}

WitC3_IrregularSampling ==
    /\ Done("classify_remodnav")
    /\ call.time_vec = <<0, 1, 5>>
    /\ warned
    /\ backend.invoked
    /\ backend.sampling_rate = [num |-> 2 * TicksPerSecond, den |-> 5]
    /\ result.status = "returned"

\* a native label of the reply that the applicable table does not hold
AbsentLabel ==
    IF call.fn = "classify_nslr_hmm"
    THEN \E k \in 1..Len(backend.reply.seg_class) :
            backend.reply.seg_class[k] \notin
                {nslr_hmm_FIXATION, nslr_hmm_SACCADE, nslr_hmm_SMOOTH_PURSUIT,
                 nslr_hmm_PSO, PyNone}
    ELSE \E k \in 1..Len(backend.reply.events) :
            backend.reply.events[k].label \notin
                {"FIXA", "SACC", "ISAC", "PURS", "HPSO", "LPSO", "IHPS", "ILPS"}

\* the table subscript is reached: the continuous conversion that
\* classify_nslr_hmm runs before it gets breakpoints in increasing order
LookupReached ==
    \/ call.fn = "classify_remodnav"
    \/ call.return_discrete
    \/ StrictlyIncreasing(times)

\* C4: when the backend returns a native label absent from the applicable
\* table the call fails and returns no segments or labels; the failure is
\* the KeyError of the table subscript (the lookup failure the design calls
\* UnknownLabelError) and the label is never mapped to "None" or any other
\* canonical label; the only native value that maps to "None" is the
\* index-based backend's None
ThmC4_UnknownLabel ==
    /\ (pc = "done" /\ call.fn # "" /\ Replied /\ AbsentLabel)
       => /\ result.status = "raised"
          /\ result.segments = <<>> /\ result.classes = <<>>
          /\ ~result.has_orig
          /\ LookupReached => (result.error = "KeyError" /\ result.raised_at = "lookup")
    /\ \A k \in DOMAIN CLASSES : CLASSES[k] = "None" => k = PyNone
    /\ \A k \in DOMAIN REMODNAV_CLASSES : REMODNAV_CLASSES[k] # "None"
    /\ \A k \in DOMAIN REMODNAV_SIMPLE : REMODNAV_SIMPLE[k] # "None"
    /\ (pc = "done" /\ result.status = "returned"
          /\ \E j \in 1..Len(result.classes) : result.classes[j] = "None")
       => /\ call.fn = "classify_nslr_hmm"
          /\ \/ \E k \in 1..Len(backend.reply.seg_class) :
                   backend.reply.seg_class[k] = PyNone
             \/ \E j \in 1..Len(times) : times[j] < backend.reply.segments[1].t[1]

WitC4_UnknownLabel ==
    /\ Done("classify_remodnav")
    /\ Replied
    /\ Len(backend.reply.events) = 2
    /\ backend.reply.events[1].label = "FIXA"
    /\ backend.reply.events[2].label = UnknownCode
    /\ ~call.return_discrete
    /\ result.status = "raised" /\ result.error = "KeyError"

\* x, y and the explicit time vector do not all have one length, or the
\* explicit time vector is not increasing
Malformed ==
    \/ call.x_len # call.y_len
    \/ /\ call.time_kind = "vector"
       /\ \/ Len(call.time_vec) # call.x_len
          \/ ~StrictlyIncreasing(call.time_vec)

\* C5: both adapters reject malformed input: whenever the lengths of x, y
\* and the explicit time vector are not all equal, or the time vector is not
\* increasing, the call fails instead of returning a result
CexC5_MalformedInput ==
    (pc = "done" /\ call.fn # "" /\ Malformed) => result.status = "raised"

BaseCategory(label) ==
    CASE label = "ISaccade" -> "Saccade"
      [] label \in {"High-Velocity PSO", "Low-Velocity PSO",
                    "High-Velocity PSO (NCB)", "Low-Velocity PSO (NCB)"} -> "PSO"
      [] OTHER -> label

\* C7: REMODNAV_CLASSES and REMODNAV_SIMPLE have the same native codes as
\* keys; the simplified table maps every code into Fixation, Saccade, Smooth
\* Pursuit, PSO, and it is the full table with each refined saccade or PSO
\* variant collapsed into its base category, Fixation and Smooth Pursuit as
\* they are; each of the four class ids of the index-based backend has its
\* own canonical label in CLASSES
ThmC7_MappingCompleteness ==
    /\ DOMAIN REMODNAV_CLASSES = DOMAIN REMODNAV_SIMPLE
    /\ DOMAIN REMODNAV_CLASSES =
         {"FIXA", "SACC", "ISAC", "PURS", "HPSO", "LPSO", "IHPS", "ILPS"}
    /\ \A k \in DOMAIN REMODNAV_SIMPLE :
         /\ REMODNAV_SIMPLE[k] \in {"Fixation", "Saccade", "Smooth Pursuit", "PSO"}
         /\ REMODNAV_SIMPLE[k] = BaseCategory(REMODNAV_CLASSES[k])
    /\ REMODNAV_SIMPLE["FIXA"] = "Fixation" /\ REMODNAV_CLASSES["FIXA"] = "Fixation"
    /\ REMODNAV_SIMPLE["PURS"] = "Smooth Pursuit"
    /\ REMODNAV_CLASSES["PURS"] = "Smooth Pursuit"
    /\ {nslr_hmm_FIXATION, nslr_hmm_SACCADE, nslr_hmm_SMOOTH_PURSUIT, nslr_hmm_PSO}
         \subseteq DOMAIN CLASSES
    /\ Cardinality(DOMAIN CLASSES) = 5
    /\ \A k \in DOMAIN CLASSES :
         CLASSES[k] \in {"Fixation", "Saccade", "Smooth Pursuit", "PSO", "None"}
    /\ (Done("classify_remodnav") /\ result.status = "returned" /\ call.return_discrete)
       => \A i \in 1..Len(result.classes) :
            IF call.simple_output
            THEN result.classes[i] \in {"Fixation", "Saccade", "Smooth Pursuit", "PSO"}
            ELSE BaseCategory(result.classes[i])
                    \in {"Fixation", "Saccade", "Smooth Pursuit", "PSO"}

WitC7_MappingCompleteness ==
    /\ Done("classify_remodnav")
    /\ call.simple_output /\ call.return_discrete
    /\ result.status = "returned"
    /\ Len(backend.reply.events) = 2
    /\ backend.reply.events[1].label = "ISAC"
    /\ backend.reply.events[2].label = "ILPS"
    /\ result.classes = <<"Saccade", "PSO">>

\* the canonical label of a class id of the index-based backend
CanonicalOfId(id) ==
    CASE id = nslr_hmm_FIXATION -> "Fixation"
      [] id = nslr_hmm_SACCADE -> "Saccade"
      [] id = nslr_hmm_SMOOTH_PURSUIT -> "Smooth Pursuit"
      [] id = nslr_hmm_PSO -> "PSO"
      [] id = PyNone -> "None"
      [] OTHER -> "?"

\* C8 as stated: in classify_nslr_hmm with return_discrete=True the returned
\* breakpoints are the backend segments' start indices, one per segment in
\* backend order, and the labels are the per-segment class ids translated
\* through CLASSES
CexC8_StartIndices ==
    (Done("classify_nslr_hmm") /\ call.return_discrete /\ result.status = "returned")
    => /\ Len(result.segments) = Len(backend.reply.segments)
       /\ \A k \in 1..Len(result.segments) :
            result.segments[k] = backend.reply.segments[k].i[1]
       /\ Len(result.classes) = Len(backend.reply.seg_class)
       /\ \A k \in 1..Len(result.classes) :
            result.classes[k] = CanonicalOfId(backend.reply.seg_class[k])

\* C8 amended: in classify_nslr_hmm with return_discrete=True the returned
\* breakpoints are the backend segments' start times s.t[0], one per segment
\* in backend order and left as the backend gave them, and the labels are
\* the per-segment class ids translated through CLASSES
ThmC8_StartTimes ==
    (Done("classify_nslr_hmm") /\ call.return_discrete /\ result.status = "returned")
    => /\ Len(result.segments) = Len(backend.reply.segments)
       /\ \A k \in 1..Len(result.segments) :
            /\ result.segments[k] = backend.reply.segments[k].t[1]
            /\ result.segments[k] = times[backend.reply.segments[k].i[1] + 1]
       /\ Len(result.classes) = Len(backend.reply.seg_class)
       /\ \A k \in 1..Len(result.classes) :
            result.classes[k] = CanonicalOfId(backend.reply.seg_class[k])

WitC8_StartTimes ==
    /\ Done("classify_nslr_hmm") /\ call.return_discrete
    /\ result.status = "returned"
    /\ times = <<10, 11, 14>>
    /\ Len(backend.reply.segments) = 2
    /\ backend.reply.segments[2].i[1] = 2
    /\ result.segments = <<10, 14>>
    /\ result.classes = <<"Fixation", "Saccade">>

\* C9: after any sequence of calls, failed ones included, the three tables
\* and the default option dictionaries are what the module defined, and a
\* finished call's result is the one its arguments and its backend reply
\* give with the tables and defaults of a fresh module
ThmC9_Stateless ==
    /\ CLASSES = CLASSES_Literal
    /\ REMODNAV_CLASSES = REMODNAV_CLASSES_Literal
    /\ REMODNAV_SIMPLE = REMODNAV_SIMPLE_Literal
    /\ classifier_kwargs = {} /\ preproc_kwargs = {} /\ process_kwargs = {}
    /\ Done("classify_nslr_hmm") =>
         result = NslrOutcome(call, backend.reply, CLASSES_Literal).result
    /\ Done("classify_remodnav") =>
         /\ result = RemodnavOutcome(call, backend.reply, REMODNAV_CLASSES_Literal,
                                     REMODNAV_SIMPLE_Literal, {}, {}, {}).result
         /\ ~call.custom_kwargs => backend.kwargs = <<{}, {}, {}>>

WitC9_Stateless ==
    /\ Done("classify_remodnav")
    /\ ~call.custom_kwargs
    /\ backend.invoked
    /\ result.status = "raised" /\ result.error = "KeyError"
    /\ classifier_kwargs = {}
    /\ REMODNAV_CLASSES = REMODNAV_CLASSES_Literal

\* C10: in classify_remodnav, when the backend returns no events the call
\* does not return empty segments and labels: unpacking the (start time,
\* label) pairs raises, in discrete and continuous mode, with and without
\* return_orig_output
ThmC10_EmptyEvents ==
    (Done("classify_remodnav") /\ Replied /\ backend.reply.events = <<>>)
    => /\ result.status = "raised"
       /\ result.error = "ValueError" /\ result.raised_at = "unpack"
       /\ result.segments = <<>> /\ result.classes = <<>> /\ ~result.has_orig

WitC10_EmptyEvents ==
    /\ Done("classify_remodnav") /\ Replied
    /\ backend.reply.events = <<>>
    /\ ~call.return_discrete /\ call.return_orig_output
    /\ result.status = "raised" /\ result.raised_at = "unpack"

====
